---- MODULE Spec2Model ----
(***************************************************************************)
(* A model of hmm.py: the weather/activity hidden Markov model built on    *)
(* hmmlearn 0.2.0's MultinomialHMM (make_hmm, make_sample, Predict,        *)
(* Estimate).                                                              *)
(*                                                                         *)
(* Probabilities are exact integers in units of 1/Denom (the literals of   *)
(* def_param are written in tenths).  A product of n probabilities is an   *)
(* integer in units of 1/Denom^n.  Log-probabilities are represented by    *)
(* the probability they are the logarithm of: log is strictly increasing,  *)
(* so max, argmax and <= are preserved, a sum of logs is a product, a      *)
(* logsumexp is a sum, and log(0) = -infinity is the integer 0.            *)
(*                                                                         *)
(* State and symbol indices are Python's, 0-based; a TLA+ sequence holds   *)
(* index i at position i+1.                                                *)
(*                                                                         *)
(* The library routines that hmm.py calls (sample, score, predict, fit)    *)
(* are modelled as hmmlearn 0.2.0 performs them; each such definition      *)
(* names the call in hmm.py it stands for.                                 *)
(***************************************************************************)
EXTENDS Integers, Sequences, FiniteSets, TLC

VARIABLES
    pc,          \* position of the caller: "start", "main", inside a function, "error"
    model,       \* the MultinomialHMM built by make_hmm
    np_random,   \* numpy's process-global RandomState (random_state=None everywhere)
    X1, Z1,      \* the observation sequence and state path the caller holds
    X1_prev,     \* the value returned by the make_sample call before the last
    Z1_prev,
    likelihood,  \* the value of model.score(X1) (hmm.py:123), NoValue before
    decoded,     \* Predict's locals: what model.predict computed (hmm.py:145)
    remodel,     \* Estimate's local MultinomialHMM (hmm.py:178)
    monitor,     \* remodel.monitor_: iter and history
    ret          \* the last call made, the value it returned, what it raised

vars == <<pc, model, np_random, X1, Z1, X1_prev, Z1_prev, likelihood,
          decoded, remodel, monitor, ret>>

None == "None"
\* an integer variable that holds no value yet
NoValue == 0 - 1
\* a sequence variable that holds no value yet
NoSeq == <<>>

----------------------------------------------------------------------------
(* Program constants *)

\* def_param's literals are tenths: 0.6 is 6.
Denom == 10
\* hmm.MultinomialHMM(n_components=2)
n_components == 2
\* observations = (sanpo, kaimono, souji)
n_symbols == 3
\* model.sample(10), remodel.sample(10)
n_samples == 10
\* hmm.MultinomialHMM(n_components=2, n_iter=10000)
n_iter == 10000
\* tol is left at the library default 1e-2; log-likelihoods are quantised in
\* units of tol/2, so tol is 2 units.
tol == 2

(* Bounds of the model *)

\* the global generator has RngMod states (numpy's has 2^19937)
RngMod == 8
\* observation sequences handed to score and Predict have length 0..MaxT
MaxT == 3
\* the quantised log-likelihood of an EM iteration is one of 0..MaxLevel
MaxLevel == 4

----------------------------------------------------------------------------
(* Small helpers *)

Min(S) == CHOOSE x \in S : \A y \in S : x <= y

RECURSIVE SumTo(_, _)
SumTo(row, i) == IF i = 0 THEN 0 ELSE SumTo(row, i - 1) + row[i]

Sum(row) == SumTo(row, Len(row))

States == 0 .. (n_components - 1)
Symbols == 0 .. (n_symbols - 1)

----------------------------------------------------------------------------
(* def_param and the parameter sets make_hmm is called with *)

\* The labels are romanised: ame = rain, hare = sunny; sanpo = walk,
\* kaimono = shopping, souji = cleaning.
states == <<"ame", "hare">>
observations == <<"sanpo", "kaimono", "souji">>

Params(s1, s2, t11, t12, t21, t22, e1, e2) ==
    [s |-> [ame |-> s1, hare |-> s2],
     t |-> [ame |-> [ame |-> t11, hare |-> t12],
            hare |-> [ame |-> t21, hare |-> t22]],
     e |-> [ame |-> [sanpo |-> e1[1], kaimono |-> e1[2], souji |-> e1[3]],
            hare |-> [sanpo |-> e2[1], kaimono |-> e2[2], souji |-> e2[3]]]]

def_param == Params(6, 4, 7, 3, 4, 6, <<1, 4, 5>>, <<6, 3, 1>>)

\* What a caller may pass to make_hmm: def_param's values, other valid
\* distributions (with zero entries, with ties), and invalid ones.
ParamSets ==
    { def_param,
      \* valid, with zero entries
      Params(0, 10, 10, 0, 3, 7, <<0, 4, 6>>, <<6, 4, 0>>),
      \* valid, symbol sanpo is impossible in both states
      Params(5, 5, 5, 5, 5, 5, <<0, 5, 5>>, <<0, 5, 5>>),
      \* valid, everything uniform enough to tie
      Params(5, 5, 5, 5, 5, 5, <<5, 5, 0>>, <<5, 0, 5>>),
      \* startprob sums to 1.1
      Params(7, 4, 7, 3, 4, 6, <<1, 4, 5>>, <<6, 3, 1>>),
      \* a transmat row sums to 0.9
      Params(6, 4, 7, 2, 4, 6, <<1, 4, 5>>, <<6, 3, 1>>),
      \* an emissionprob row sums to 0.9, and its first entry is 0
      Params(6, 4, 7, 3, 4, 6, <<0, 4, 5>>, <<6, 3, 1>>),
      \* an emissionprob entry is 1.2
      Params(6, 4, 7, 3, 4, 6, <<12, 4, 5>>, <<6, 3, 1>>) }

----------------------------------------------------------------------------
(* make_hmm *)

\* hmm.py:70-92: the three arrays are built from the dictionaries and
\* assigned to the model's attributes; nothing is checked.
make_hmm(p) ==
    [startprob_ |-> <<p.s.ame, p.s.hare>>,
     transmat_ |-> << <<p.t.ame.ame, p.t.ame.hare>>,
                      <<p.t.hare.ame, p.t.hare.hare>> >>,
     emissionprob_ |-> << <<p.e.ame.sanpo, p.e.ame.kaimono, p.e.ame.souji>>,
                          <<p.e.hare.sanpo, p.e.hare.kaimono, p.e.hare.souji>> >>]

\* The invariant of a Model: every entry in [0,1], every row sums to 1.
IsDistribution(row) ==
    /\ \A i \in 1 .. Len(row) : row[i] >= 0 /\ row[i] <= Denom
    /\ Sum(row) = Denom

ValidModel(m) ==
    /\ IsDistribution(m.startprob_)
    /\ \A i \in 1 .. Len(m.transmat_) : IsDistribution(m.transmat_[i])
    /\ \A i \in 1 .. Len(m.emissionprob_) : IsDistribution(m.emissionprob_[i])

\* _BaseHMM._check, run by sample, score and decode before they compute:
\* startprob_ and every row of transmat_ must sum to 1 (np.allclose, whose
\* tolerance is far below 1/Denom); emissionprob_ is checked for shape only.
hmm_check(m) ==
    /\ Sum(m.startprob_) = Denom
    /\ \A i \in 1 .. Len(m.transmat_) : Sum(m.transmat_[i]) = Denom

\* ret: the call, the value it returned, the exception it raised.
Returned(f, v) == [call |-> f, value |-> v, raised |-> None]
Raised(f, e) == [call |-> f, value |-> None, raised |-> e]

MakeHmm ==
    /\ pc = "start"
    /\ \E p \in ParamSets :
         /\ model' = make_hmm(p)
         /\ ret' = Returned("make_hmm", make_hmm(p))
    /\ pc' = "main"
    /\ UNCHANGED <<np_random, X1, Z1, X1_prev, Z1_prev, likelihood,
                   decoded, remodel, monitor>>

----------------------------------------------------------------------------
(* The process-global random generator *)

\* random_state.rand(): the generator is a deterministic function of its
\* state; a linear congruential step stands for the Mersenne Twister's.
\* The state g is also the draw: u = g / RngMod, in [0, 1).
NextRng(g) == (5 * g + 3) % RngMod

RECURSIVE Advance(_, _)
Advance(g, n) == IF n = 0 THEN g ELSE Advance(NextRng(g), n - 1)

----------------------------------------------------------------------------
(* model.sample *)

\* (cdf > random_state.rand()).argmax() over cdf = np.cumsum(row):
\* the first index whose cumulative sum exceeds the draw; argmax of an
\* all-False array is 0.
Categorical(row, g) ==
    LET hits == {i \in 1 .. Len(row) : SumTo(row, i) * RngMod > g * Denom}
    IN  IF hits = {} THEN 0 ELSE Min(hits) - 1

RECURSIVE sample_loop(_, _, _, _, _, _)
sample_loop(m, left, currstate, g, X, Z) ==
    IF left = 0
    THEN [X |-> X, Z |-> Z, g |-> g]
    ELSE LET next == Categorical(m.transmat_[currstate + 1], g)
             g1 == NextRng(g)
             x == Categorical(m.emissionprob_[next + 1], g1)
         IN  sample_loop(m, left - 1, next, NextRng(g1),
                         Append(X, x), Append(Z, next))

\* _BaseHMM.sample(n): state_0 from startprob_, then for each further step
\* a state from the current state's transmat_ row; after every state one
\* symbol from that state's emissionprob_ row.  One draw per choice.
sample(m, n, g) ==
    LET s0 == Categorical(m.startprob_, g)
        g1 == NextRng(g)
        x0 == Categorical(m.emissionprob_[s0 + 1], g1)
    IN  sample_loop(m, n - 1, s0, NextRng(g1), <<x0>>, <<s0>>)

\* hmm.py:94-124.  model.sample(10) draws from the global generator and
\* (X1, Z1) is returned.  The loop and the likelihood line only print.  The
\* likelihood of a 10-step sequence, an integer in units of 1/Denom^20, is
\* beyond TLC's integers: Score below computes model.score for sequences
\* of length up to MaxT.
MakeSample_swapped ==
    /\ pc = "main"
    /\ IF hmm_check(model)
       THEN LET r == sample(model, n_samples, np_random)
            IN  /\ X1' = r.Z
                /\ Z1' = r.X
                /\ np_random' = r.g
                /\ X1_prev' = X1
                /\ Z1_prev' = Z1
                /\ ret' = Returned("make_sample", <<r.Z, r.X>>)
                /\ UNCHANGED pc
       ELSE /\ pc' = "error"
            /\ ret' = Raised("make_sample", "ValueError")
            /\ UNCHANGED <<np_random, X1, Z1, X1_prev, Z1_prev>>
    /\ UNCHANGED <<model, likelihood, decoded, remodel, monitor>>

MakeSample ==
    /\ pc = "main"
    /\ IF hmm_check(model)
       THEN LET r == sample(model, n_samples, np_random)
            IN  /\ X1' = r.X
                /\ Z1' = r.Z
                /\ np_random' = r.g
                /\ X1_prev' = X1
                /\ Z1_prev' = Z1
                /\ ret' = Returned("make_sample", <<r.X, r.Z>>)
                /\ UNCHANGED pc
       ELSE /\ pc' = "error"
            /\ ret' = Raised("make_sample", "ValueError")
            /\ UNCHANGED <<np_random, X1, Z1, X1_prev, Z1_prev>>
    /\ UNCHANGED <<model, likelihood, decoded, remodel, monitor>>

----------------------------------------------------------------------------
(* model.score and model.predict *)

A(m, j, i) == m.transmat_[j + 1][i + 1]
B(m, i, x) == m.emissionprob_[i + 1][x + 1]

\* sklearn's check_array, the first thing score, decode and fit do with X:
\* an array with no sample is rejected with a ValueError.
check_array(X) == Len(X) >= 1

\* _hmmc._argmax: X_max starts at -INFINITY (probability 0), a strictly
\* larger entry replaces it, so the lowest index wins a tie and an all
\* -INFINITY buffer gives 0.
RECURSIVE argmax_scan(_, _, _, _)
argmax_scan(W, i, X_max, pos) ==
    IF i > Len(W) THEN pos
    ELSE IF W[i] > X_max THEN argmax_scan(W, i + 1, W[i], i - 1)
         ELSE argmax_scan(W, i + 1, X_max, pos)

hmmc_argmax(W) == argmax_scan(W, 1, 0, 0)

RECURSIVE max_scan(_, _, _)
max_scan(W, i, X_max) ==
    IF i > Len(W) THEN X_max
    ELSE max_scan(W, i + 1, IF W[i] > X_max THEN W[i] ELSE X_max)

hmmc_max(W) == max_scan(W, 1, 0)

\* _hmmc._viterbi, the lattice: row t (1..T) over the states.
RECURSIVE viterbi_lattice(_, _, _)
viterbi_lattice(m, X, t) ==
    IF t = 1
    THEN [i \in 1 .. n_components |->
            m.startprob_[i] * B(m, i - 1, X[1])]
    ELSE LET prev == viterbi_lattice(m, X, t - 1)
         IN  [i \in 1 .. n_components |->
                hmmc_max([j \in 1 .. n_components |->
                            A(m, j - 1, i - 1) * prev[j]])
                * B(m, i - 1, X[t])]

\* _hmmc._viterbi, the traceback from row t down to row 1.
RECURSIVE traceback(_, _, _, _, _)
traceback(m, X, t, where_from, seq) ==
    IF t = 0 THEN seq
    ELSE LET lat == viterbi_lattice(m, X, t)
             work_buffer == [i \in 1 .. n_components |->
                               lat[i] * A(m, i - 1, where_from)]
             s == hmmc_argmax(work_buffer)
         IN  traceback(m, X, t - 1, s, <<s>> \o seq)

\* _BaseHMM.decode with algorithm="viterbi": (logprob, state_sequence).
decode(m, X) ==
    LET T == Len(X)
        last == viterbi_lattice(m, X, T)
        where_from == hmmc_argmax(last)
    IN  [logprob |-> last[where_from + 1],
         state_sequence |-> traceback(m, X, T - 1, where_from, <<where_from>>)]

\* _hmmc._forward: row t of the forward lattice.
RECURSIVE fwdlattice(_, _, _)
fwdlattice(m, X, t) ==
    IF t = 1
    THEN [i \in 1 .. n_components |->
            m.startprob_[i] * B(m, i - 1, X[1])]
    ELSE LET prev == fwdlattice(m, X, t - 1)
         IN  [j \in 1 .. n_components |->
                Sum([i \in 1 .. n_components |->
                       prev[i] * A(m, i - 1, j - 1)])
                * B(m, j - 1, X[t])]

\* _BaseHMM.score: logsumexp of the last forward row.
score(m, X) == Sum(fwdlattice(m, X, Len(X)))

NoDecoded == [logprob |-> NoValue, state_sequence |-> NoSeq]

\* hmm.py:123, model.score(X1): _check, check_array, the forward pass.
Score_of_Z1 ==
    /\ pc = "main"
    /\ IF hmm_check(model) /\ check_array(X1)
       THEN /\ likelihood' = score(model, Z1)
            /\ ret' = Returned("score", score(model, Z1))
            /\ UNCHANGED pc
       ELSE /\ pc' = "error"
            /\ ret' = Raised("score", "ValueError")
            /\ UNCHANGED likelihood
    /\ UNCHANGED <<model, np_random, X1, Z1, X1_prev, Z1_prev, decoded,
                   remodel, monitor>>

Score ==
    /\ pc = "main"
    /\ IF hmm_check(model) /\ check_array(X1)
       THEN /\ likelihood' = score(model, X1)
            /\ ret' = Returned("score", score(model, X1))
            /\ UNCHANGED pc
       ELSE /\ pc' = "error"
            /\ ret' = Raised("score", "ValueError")
            /\ UNCHANGED likelihood
    /\ UNCHANGED <<model, np_random, X1, Z1, X1_prev, Z1_prev, decoded,
                   remodel, monitor>>

\* hmm.py:145, Pre_Z1 = model.predict(X1): _check, check_array, Viterbi.
PredictCall_of_Z1 ==
    /\ pc = "main"
    /\ IF hmm_check(model) /\ check_array(X1)
       THEN /\ decoded' = decode(model, Z1)
            /\ pc' = "Predict:147"
            /\ UNCHANGED ret
       ELSE /\ pc' = "error"
            /\ ret' = Raised("Predict", "ValueError")
            /\ UNCHANGED decoded
    /\ UNCHANGED <<model, np_random, X1, Z1, X1_prev, Z1_prev, likelihood,
                   remodel, monitor>>

PredictCall_unchecked ==
    /\ pc = "main"
    /\ IF hmm_check(model)
       THEN /\ decoded' = IF Len(X1) = 0
                          THEN [logprob |-> 1, state_sequence |-> <<>>]
                          ELSE decode(model, X1)
            /\ pc' = "Predict:147"
            /\ UNCHANGED ret
       ELSE /\ pc' = "error"
            /\ ret' = Raised("Predict", "ValueError")
            /\ UNCHANGED decoded
    /\ UNCHANGED <<model, np_random, X1, Z1, X1_prev, Z1_prev, likelihood,
                   remodel, monitor>>

PredictCall ==
    /\ pc = "main"
    /\ IF hmm_check(model) /\ check_array(X1)
       THEN /\ decoded' = decode(model, X1)
            /\ pc' = "Predict:147"
            /\ UNCHANGED ret
       ELSE /\ pc' = "error"
            /\ ret' = Raised("Predict", "ValueError")
            /\ UNCHANGED decoded
    /\ UNCHANGED <<model, np_random, X1, Z1, X1_prev, Z1_prev, likelihood,
                   remodel, monitor>>

\* hmm.py:147-155: the loop prints and counts the matches with Z1; Predict
\* returns nothing and its locals are gone.
PredictReturn ==
    /\ pc = "Predict:147"
    /\ decoded' = NoDecoded
    /\ ret' = Returned("Predict", None)
    /\ pc' = "main"
    /\ UNCHANGED <<model, np_random, X1, Z1, X1_prev, Z1_prev, likelihood,
                   remodel, monitor>>

----------------------------------------------------------------------------
(* Estimate *)

SymbolsOf(X) == {X[t] : t \in 1 .. Len(X)}

\* MultinomialHMM._check_input_symbols: more than one sample, no negative
\* symbol, and the sorted symbols never step by more than 1.
check_input_symbols(X) ==
    /\ Len(X) # 1
    /\ \A a \in SymbolsOf(X) :
         /\ a >= 0
         /\ a = Min(SymbolsOf(X)) \/ (a - 1) \in SymbolsOf(X)

\* MultinomialHMM._init: startprob_ and transmat_ are set uniform,
\* n_features is the number of distinct symbols of X, and emissionprob_ is
\* random_state.rand(n_components, n_features), each row then divided by
\* its sum.  A row is held by its weights (numerators over RngMod); the
\* probability of symbol k in state i is weight / Sum(row).  em_steps
\* counts the M-steps applied to these parameters since.
hmm_init(X, g) ==
    LET n_features == Cardinality(SymbolsOf(X))
    IN  [startprob_ |-> [i \in 1 .. n_components |-> Denom \div n_components],
         transmat_ |-> [i \in 1 .. n_components |->
                          [j \in 1 .. n_components |-> Denom \div n_components]],
         emissionprob_ |-> [i \in 1 .. n_components |->
                              [k \in 1 .. n_features |->
                                 Advance(g, (i - 1) * n_features + (k - 1))]],
         n_features |-> n_features,
         em_steps |-> 0]

NoModel == [startprob_ |-> NoSeq, transmat_ |-> NoSeq, emissionprob_ |-> NoSeq,
            n_features |-> 0, em_steps |-> 0]

NoMonitor == [iter |-> 0, history |-> NoSeq]

\* ConvergenceMonitor.converged
converged(mon) ==
    \/ mon.iter = n_iter
    \/ /\ Len(mon.history) = 2
       /\ mon.history[2] - mon.history[1] < tol

\* ConvergenceMonitor.report: history is a deque of at most two values.
report(mon, logprob) ==
    [iter |-> mon.iter + 1,
     history |-> IF Len(mon.history) = 2
                 THEN <<mon.history[2], logprob>>
                 ELSE Append(mon.history, logprob)]

\* hmm.py:178-181 up to the first iteration of fit: a new MultinomialHMM is
\* made, it holds none of model's parameters, and fit(X1) initialises it.
\* A symbol that is not below n_features is an IndexError in the first
\* E-step.
EstimateBegin_inplace ==
    /\ pc = "main"
    /\ X1 # NoSeq
    /\ IF ~check_input_symbols(X1)
       THEN /\ pc' = "error"
            /\ ret' = Raised("Estimate", "ValueError")
            /\ UNCHANGED <<remodel, monitor, np_random, model>>
       ELSE LET init == hmm_init(X1, np_random)
            IN  /\ model' = [startprob_ |-> init.startprob_,
                             transmat_ |-> init.transmat_,
                             emissionprob_ |-> init.emissionprob_]
                /\ remodel' = init
                /\ monitor' = NoMonitor
                /\ np_random' = Advance(np_random, n_components * init.n_features)
                /\ IF \E a \in SymbolsOf(X1) : a >= init.n_features
                   THEN /\ pc' = "error"
                        /\ ret' = Raised("Estimate", "IndexError")
                   ELSE /\ pc' = "Estimate:fit"
                        /\ UNCHANGED ret
    /\ UNCHANGED <<X1, Z1, X1_prev, Z1_prev, likelihood, decoded>>

EstimateBegin ==
    /\ pc = "main"
    /\ X1 # NoSeq
    /\ IF ~check_input_symbols(X1)
       THEN /\ pc' = "error"
            /\ ret' = Raised("Estimate", "ValueError")
            /\ UNCHANGED <<remodel, monitor, np_random>>
       ELSE LET init == hmm_init(X1, np_random)
            IN  /\ remodel' = init
                /\ monitor' = NoMonitor
                /\ np_random' = Advance(np_random, n_components * init.n_features)
                /\ IF \E a \in SymbolsOf(X1) : a >= init.n_features
                   THEN /\ pc' = "error"
                        /\ ret' = Raised("Estimate", "IndexError")
                   ELSE /\ pc' = "Estimate:fit"
                        /\ UNCHANGED ret
    /\ UNCHANGED <<model, X1, Z1, X1_prev, Z1_prev, likelihood, decoded>>

\* One pass of the loop of _BaseHMM.fit: the E-step gives the sequence's
\* log-likelihood under the current parameters, the M-step replaces the
\* parameters, the monitor records the log-likelihood, and the loop ends
\* when the monitor says converged.  The floating-point value of the
\* log-likelihood is any of the quantised levels.
FitIteration ==
    /\ pc = "Estimate:fit"
    /\ monitor.iter < n_iter
    /\ \E curr_logprob \in 0 .. MaxLevel :
         /\ monitor' = report(monitor, curr_logprob)
         /\ pc' = IF converged(report(monitor, curr_logprob))
                  THEN "Estimate:183" ELSE "Estimate:fit"
    /\ remodel' = [remodel EXCEPT !.em_steps = @ + 1]
    /\ UNCHANGED <<model, np_random, X1, Z1, X1_prev, Z1_prev, likelihood,
                   decoded, ret>>

\* hmm.py:183-187: remodel.sample(10) takes its 2 * 10 draws from the
\* global generator, the loop prints, and Estimate returns nothing: remodel
\* and its monitor are gone.
EstimateEnd ==
    /\ pc = "Estimate:183"
    /\ np_random' = Advance(np_random, 2 * n_samples)
    /\ remodel' = NoModel
    /\ monitor' = NoMonitor
    /\ ret' = Returned("Estimate", None)
    /\ pc' = "main"
    /\ UNCHANGED <<model, X1, Z1, X1_prev, Z1_prev, likelihood, decoded>>

----------------------------------------------------------------------------
(* The program: make_hmm, then make_sample and Estimate, in any order.     *)
(* The arithmetic of score and Predict on a sequence of n_samples steps    *)
(* needs products up to Denom^(2*n_samples), wider than TLC's integers;    *)
(* the two are run under SpecDecode below, on sequences of up to MaxT      *)
(* steps.  Both leave model unchanged.                                     *)

Init ==
    /\ pc = "start"
    /\ model = None
    /\ np_random \in 0 .. (RngMod - 1)
    /\ X1 = NoSeq
    /\ Z1 = NoSeq
    /\ X1_prev = NoSeq
    /\ Z1_prev = NoSeq
    /\ likelihood = NoValue
    /\ decoded = NoDecoded
    /\ remodel = NoModel
    /\ monitor = NoMonitor
    /\ ret = Returned("none", None)

Next ==
    \/ MakeHmm
    \/ MakeSample
    \/ EstimateBegin
    \/ FitIteration
    \/ EstimateEnd

Spec == Init /\ [][Next]_vars

(* score and Predict on a model and sequences the caller supplies.  Z1,   *)
(* which Predict only compares with its result for the printed count, is  *)
(* a path that stays in one state.                                        *)

ObsSeqs == UNION {[1 .. T -> Symbols] : T \in 0 .. MaxT}

InitDecode ==
    /\ pc = "main"
    /\ model \in {make_hmm(p) : p \in ParamSets}
    /\ np_random = 0
    /\ X1 \in ObsSeqs
    /\ Z1 \in {[t \in 1 .. Len(X1) |-> j] : j \in States}
    /\ X1_prev = NoSeq
    /\ Z1_prev = NoSeq
    /\ likelihood = NoValue
    /\ decoded = NoDecoded
    /\ remodel = NoModel
    /\ monitor = NoMonitor
    /\ ret = Returned("make_hmm", None)

NextDecode ==
    \/ Score
    \/ PredictCall
    \/ PredictReturn

SpecDecode == InitDecode /\ [][NextDecode]_vars

----------------------------------------------------------------------------
(* What the claims are checked against: every state path, one by one *)

Paths(T) == [1 .. T -> States]

MaxOver(S) == CHOOSE x \in S : \A y \in S : y <= x

\* The joint probability of the first t states of path p and the first t
\* observations of X: pi[s_0]*B[s_0][o_0] * prod A[s_(u-1)][s_u]*B[s_u][o_u].
RECURSIVE JointTo(_, _, _, _)
JointTo(m, X, p, t) ==
    IF t = 1
    THEN m.startprob_[p[1] + 1] * B(m, p[1], X[1])
    ELSE JointTo(m, X, p, t - 1) * A(m, p[t - 1], p[t]) * B(m, p[t], X[t])

JointProb(m, X, p) == JointTo(m, X, p, Len(X))

BestJoint(m, X) == MaxOver({JointProb(m, X, p) : p \in Paths(Len(X))})

\* The best joint probability of t states that end in state j.
BestEnding(m, X, t, j) ==
    MaxOver({JointTo(m, X, p, t) : p \in {q \in Paths(Len(X)) : q[t] = j}})

\* The lowest state at which f is largest.
LowestArgmax(f) == Min({j \in States : \A k \in States : f[k] <= f[j]})

NonZeroPaths(m, X) == {p \in Paths(Len(X)) : JointProb(m, X, p) > 0}

----------------------------------------------------------------------------
(* The claims *)

\* C1 (as claimed): make_hmm returns a Model only when pi and every row of
\* A and B have their entries in [0,1] and sum to 1; otherwise construction
\* fails and no Model exists.
C1_ConstructionValidates ==
    pc = "start" \/ ValidModel(model)

\* C2 (as claimed): two calls of make_sample on the same model return
\* identical (observations, states) pairs: the result depends only on the
\* arguments, not on process-global random state or on earlier calls.
C2_SampleDependsOnArgumentsOnly ==
    (X1 # NoSeq /\ X1_prev # NoSeq) => (X1 = X1_prev /\ Z1 = Z1_prev)

\* C3: for a valid model, the sample returned has an observation sequence
\* and a state path of length exactly T (10), every state in [0,K), every
\* symbol in [0,M), and it is a positive-probability trajectory:
\* pi[s_0] > 0, A[s_(t-1)][s_t] > 0 and B[s_t][o_t] > 0.
C3_SampleIsTrajectory ==
    (pc # "start" /\ X1 # NoSeq /\ ValidModel(model)) =>
        /\ Len(X1) = n_samples
        /\ Len(Z1) = n_samples
        /\ \A t \in 1 .. n_samples : Z1[t] \in States /\ X1[t] \in Symbols
        /\ model.startprob_[Z1[1] + 1] > 0
        /\ \A t \in 2 .. n_samples : A(model, Z1[t - 1], Z1[t]) > 0
        /\ \A t \in 1 .. n_samples : B(model, Z1[t], X1[t]) > 0

\* C3's case: a sample was returned by a valid model in which state 0 can
\* never start, state 0 never moves to state 1, and each state has a
\* symbol it never emits.
C3_Witness ==
    /\ pc = "main"
    /\ ret.call = "make_sample"
    /\ ValidModel(model)
    /\ model.startprob_[1] = 0
    /\ model.transmat_[1][2] = 0
    /\ Len(X1) = n_samples

C6_FitReportsConvergence ==
    /\ monitor.iter <= n_iter
    /\ (ret.call = "Estimate" /\ ret.raised = None) =>
         /\ ret.value # None
         /\ ret.value.iterations_run <= n_iter
         /\ ret.value.converged \in BOOLEAN

\* C8: once built, the model's startprob_, transmat_ and emissionprob_
\* never change, whatever is called on it; when fit has returned, the
\* fitted parameters are those of remodel, another object.
C8_ModelNeverMutated ==
    /\ [][pc # "start" => model' = model]_vars
    /\ [](pc = "Estimate:183" => remodel.em_steps >= 1)

\* C8's case: fit has returned inside Estimate, remodel holds re-estimated
\* parameters, after a sample was drawn from model.
C8_Witness ==
    /\ pc = "Estimate:183"
    /\ remodel.em_steps >= 2
    /\ ValidModel(model)
    /\ X1 # NoSeq

\* C9: decoding an empty observation sequence raises an error and no path
\* is produced.
C9_EmptyDecodeRejected ==
    Len(X1) = 0 =>
        /\ pc # "Predict:147"
        /\ decoded = NoDecoded
        /\ ret.call = "Predict" => (pc = "error" /\ ret.raised = "ValueError")

\* C9's case: Predict was called on an empty sequence with a valid model.
C9_Witness ==
    /\ Len(X1) = 0
    /\ ValidModel(model)
    /\ ret.call = "Predict"

\* C10 (as claimed): the parameters with which fit starts its first EM
\* iteration are those of the model the caller supplied.
C10_FitStartsFromCallersModel ==
    (pc = "Estimate:fit" /\ monitor.iter = 0) =>
        /\ remodel.startprob_ = model.startprob_
        /\ remodel.transmat_ = model.transmat_
        /\ remodel.n_features = n_symbols
        /\ \A i \in 1 .. n_components : \A k \in 1 .. n_symbols :
             remodel.emissionprob_[i][k] * Sum(model.emissionprob_[i])
               = model.emissionprob_[i][k] * Sum(remodel.emissionprob_[i])

====
